---------------------------- MODULE Spec2Model ----------------------------
(***************************************************************************)
(* A state-machine model of the Merinfo scraper (src/merinfo_scraper.py):  *)
(* the response cache MerinfoCache, the rate limiter, the page fetcher     *)
(* safe_request and the orchestrator search_person.                        *)
(*                                                                         *)
(* Time is the value of time.time(), counted in whole seconds and taken    *)
(* to be non-decreasing.  A Python dict keeps its keys in insertion order  *)
(* and min() returns the first minimal element in that order, so the cache *)
(* is a sequence of entries in dict order.                                 *)
(***************************************************************************)
EXTENDS Integers, Sequences, FiniteSets, TLC

VARIABLES
    now,        \* the clock, time.time()
    cache,      \* MerinfoCache.cache: entries [key, data, ts] in dict order
    max_size,   \* MerinfoCache.max_size
    ttl,        \* MerinfoCache.ttl
    last_op,    \* history: the cache operation performed by the last step
    setRun,     \* history: keys set one after another since the cache was empty
    request_count,      \* RobustMerinfoScraper.request_count
    last_request_time,  \* RobustMerinfoScraper.last_request_time
    error_count,        \* RobustMerinfoScraper.error_count
    pc,         \* where the one thread that uses the scraper stands
    sr,         \* the locals of the running safe_request
    sp,         \* the locals of the running search_person
    ret,        \* what the last finished top-level call returned
    call,       \* history: the current (or last) safe_request call
    calls       \* history: the number of top-level calls made

cacheVars == <<now, cache, max_size, ttl, last_op, setRun>>

scraperVars == <<request_count, last_request_time, error_count,
                 pc, sr, sp, ret, call, calls>>

vars == <<now, cache, max_size, ttl, last_op, setRun,
          request_count, last_request_time, error_count,
          pc, sr, sp, ret, call, calls>>

(***************************************************************************)
(* Bounds of the model.                                                    *)
(***************************************************************************)
MaxCap == 2       \* max_size is drawn from 1..MaxCap
MaxTtl == 2       \* ttl is drawn from 1..MaxTtl
MaxTime == 3      \* the clock of the cache specification stops at MaxTime
MaxCalls == 2     \* top-level calls made on the scraper
MaxElapsed == 8   \* seconds the scraper specification lets pass
max_retries == 1  \* the configured max_retries (config.get('max_retries', 3))
CacheCap == 2     \* max_size of the scraper's cache (MerinfoCache() has 100)
CacheTtl == 3     \* ttl of the scraper's cache (MerinfoCache() has 3600)

None == "None"

\* one key more than the largest capacity, so that a full cache can overflow
CacheKeys == 1..(MaxCap + 1)
Payloads == {"a", "b"}

(***************************************************************************)
(* MerinfoCache                                                            *)
(***************************************************************************)
KeysOf(c) == {c[i].key : i \in 1..Len(c)}

IndexOf(c, k) == CHOOSE i \in 1..Len(c) : c[i].key = k

Remove(c, i) == SubSeq(c, 1, i - 1) \o SubSeq(c, i + 1, Len(c))

EntryOf(c, k) == c[IndexOf(c, k)]

\* faulty variant: the expiry test written with <=
Fresh_le(e, t, life) == t - e.ts <= life

\* faulty variant: the expiry test turned round
Fresh_gt(e, t, life) == t - e.ts > life

\* time.time() - timestamp < self.ttl
Fresh(e, t, life) == t - e.ts < life

\* MerinfoCache.get: the value returned.
cache_get_value(c, k, t, life) ==
    IF k \in KeysOf(c) /\ Fresh(c[IndexOf(c, k)], t, life)
    THEN c[IndexOf(c, k)].data
    ELSE None

\* MerinfoCache.get: the dict afterwards (an expired entry is deleted).
cache_get_state(c, k, t, life) ==
    IF k \in KeysOf(c) /\ ~Fresh(c[IndexOf(c, k)], t, life)
    THEN Remove(c, IndexOf(c, k))
    ELSE c

\* faulty variant: evict the newest entry
newest_index(c) ==
    CHOOSE i \in 1..Len(c) :
        /\ \A j \in 1..Len(c) : c[i].ts >= c[j].ts
        /\ \A j \in (i + 1)..Len(c) : c[j].ts < c[i].ts

\* min(self.cache.keys(), key=lambda k: self.cache[k][-1]): the first entry,
\* in dict order, whose timestamp is minimal.
oldest_index(c) ==
    CHOOSE i \in 1..Len(c) :
        /\ \A j \in 1..Len(c) : c[i].ts <= c[j].ts
        /\ \A j \in 1..(i - 1) : c[j].ts > c[i].ts

\* faulty variant: nothing is ever evicted
needs_eviction_never(c, cap) == FALSE

\* faulty variant: the capacity test written with >
needs_eviction_gt(c, cap) == Len(c) > cap

\* len(self.cache) >= self.max_size
needs_eviction(c, cap) == Len(c) >= cap

\* The dict after the eviction step of set.
after_eviction(c, cap) ==
    IF needs_eviction(c, cap) THEN Remove(c, oldest_index(c)) ELSE c

\* self.cache[key] = (value, time.time()): an existing key keeps its place in
\* the dict, a new key goes last.
dict_store(c, k, v, t) ==
    LET e == [key |-> k, data |-> v, ts |-> t]
    IN  IF k \in KeysOf(c)
        THEN [c EXCEPT ![IndexOf(c, k)] = e]
        ELSE Append(c, e)

\* MerinfoCache.set: the dict afterwards.
cache_set_state(c, k, v, t, cap) == dict_store(after_eviction(c, cap), k, v, t)

\* the history variables of the cache specification
Broken == <<0>>

NoOp == [op |-> "none", key |-> 0, had |-> FALSE, ret |-> None]

(***************************************************************************)
(* RobustMerinfoScraper: configuration and the pages the site may serve.   *)
(***************************************************************************)
min_delay == 2        \* self.config.get('min_delay', 2.0)
max_delay == 5        \* self.config.get('max_delay', 5.0)

\* A page is what the extractors find in it: the person records of
\* extract_all_persons_robust and the number of rows with a make/model of
\* parse_vehicle_table_robust.  An optional URL or integer is a sequence of
\* at most one element: profil_url is <<>> for a name link without href and
\* alder is <<>> when no birth year could be derived.
Person(n, u, ad, g, al, k) ==
    [namn |-> n, profil_url |-> u, adress |-> ad, gata |-> g,
     alder |-> al, kon |-> k]

ProfileUrl == <<"https://www.merinfo.se", "/person/1">>

Absent == <<>>

PageContent(p) ==
    CASE p = "empty" -> [persons |-> <<>>, vehicles |-> 0]
      [] p = "one"   -> [persons |->
                            <<Person("Anna Berg", <<ProfileUrl>>, "Storgatan 1, Umea",
                                     "Storgatan", <<40>>, "Kvinna")>>,
                         vehicles |-> 0]
      [] p = "bare"  -> [persons |->
                            <<Person("Anna Berg", Absent, "", "", Absent, None)>>,
                         vehicles |-> 0]
      [] p = "two"   -> [persons |->
                            <<Person("Anna Berg", <<ProfileUrl>>, "Storgatan 1, Umea",
                                     "Storgatan", <<40>>, "Kvinna"),
                              Person("Anna Berg", <<ProfileUrl>>, "", "", Absent, None)>>,
                         vehicles |-> 0]
      [] p = "pair"  -> [persons |->
                            <<Person("Anna Berg", <<ProfileUrl>>, "Storgatan 1, Umea",
                                     "Storgatan", <<40>>, "Kvinna"),
                              Person("Anna Berg", <<ProfileUrl>>, "Kungsgatan 2, Umea",
                                     "Kungsgatan", <<0>>, None)>>,
                         vehicles |-> 0]
      [] p = "three" -> [persons |->
                            <<Person("Anna Berg", <<ProfileUrl>>, "Kungsgatan 2, Umea",
                                     "Kungsgatan", <<0>>, "Kvinna"),
                              Person("Anna Berg", <<ProfileUrl>>, "", "", <<30>>, None),
                              Person("Anders Berg", Absent, "", "", Absent, "Man")>>,
                         vehicles |-> 0]
      [] p = "four"  -> [persons |->
                            <<Person("A", <<ProfileUrl>>, "", "", Absent, None),
                              Person("B", <<ProfileUrl>>, "", "", Absent, None),
                              Person("C", <<ProfileUrl>>, "", "", Absent, None),
                              Person("D", <<ProfileUrl>>, "", "", Absent, None)>>,
                         vehicles |-> 0]
      [] p = "cars"  -> [persons |-> <<>>, vehicles |-> 2]

Pages == {"empty", "one", "bare", "two", "pair", "three", "four", "cars"}

\* extract_all_persons_robust(soup)
extract_all_persons_robust(p) == PageContent(p).persons

(***************************************************************************)
(* normalize_svensk_namn, tabulated on the inputs the model uses: strip,   *)
(* digraphs to accented letters, whitespace runs to one space, characters  *)
(* outside [\w\s-] dropped, title case.                                    *)
(***************************************************************************)
RawNames == {"anna", " berg ", "umea", "storgatan", " ", "?"}

normalize_svensk_namn(namn) ==
    CASE namn = "anna"      -> "Anna"
      [] namn = " berg "    -> "Berg"
      [] namn = "umea"      -> "Umea"
      [] namn = "storgatan" -> "Storgatan"
      [] namn = " "         -> ""
      [] namn = "?"         -> ""
      [] namn = ""          -> ""

\* Python truth value of an optional string
Truthy(x) == x # None /\ x # ""

\* Python truth value of an optional integer
TruthyInt(x) == x # Absent /\ x[1] # 0

\* "if x: x = self.normalize_svensk_namn(x)"
normalized(x) == IF Truthy(x) THEN normalize_svensk_namn(x) ELSE x

\* the candidates in the order the builder appends them; a confidence is
\* kept in hundredths
\* faulty variant: a first name alone makes a candidate
strategies_appended_name_only(fornamn, efternamn, ort, gata, alder) ==
    IF Truthy(normalized(fornamn))
    THEN <<[query |-> <<normalized(fornamn)>>, conf |-> 40]>>
    ELSE <<>>

strategies_appended(fornamn, efternamn, ort, gata, alder) ==
    LET f == normalized(fornamn)
        e == normalized(efternamn)
        o == normalized(ort)
        g == normalized(gata)
        s1 == IF Truthy(f) /\ Truthy(e) /\ Truthy(o)
              THEN <<[query |-> <<f, e, o>>, conf |-> 100]>> ELSE <<>>
        s2 == IF Truthy(g) /\ Truthy(o)
              THEN IF Truthy(f) /\ Truthy(e)
                   THEN <<[query |-> <<f, e, g, o>>, conf |-> 95]>>
                   ELSE IF Truthy(f)
                        THEN <<[query |-> <<f, g, o>>, conf |-> 80]>>
                        ELSE <<>>
              ELSE <<>>
        s3 == IF Truthy(f) /\ Truthy(o)
              THEN <<[query |-> <<f, o>>, conf |-> 70]>> ELSE <<>>
        s4 == IF Truthy(e) /\ Truthy(o)
              THEN <<[query |-> <<e, o>>, conf |-> 60]>> ELSE <<>>
        s5 == IF TruthyInt(alder) /\ Truthy(f) /\ Truthy(e)
              THEN <<[query |-> <<f, e, ToString(2025 - alder[1])>>, conf |-> 50]>>
              ELSE <<>>
    IN  s1 \o s2 \o s3 \o s4 \o s5

\* list.sort(key=confidence, reverse=True): a stable sort, by insertion
RECURSIVE sort_by_conf(_)
sort_by_conf(s) ==
    IF Len(s) <= 1 THEN s
    ELSE LET rest == sort_by_conf(Tail(s))
             x == Head(s)
             \* x goes before the first element of smaller confidence
             n == Cardinality({i \in 1..Len(rest) : rest[i].conf >= x.conf})
         IN  SubSeq(rest, 1, n) \o <<x>> \o SubSeq(rest, n + 1, Len(rest))

\* faulty variant: the list is cut after five
first_five(s) == SubSeq(s, 1, IF Len(s) < 5 THEN Len(s) ELSE 5)

\* faulty variant: the list is not cut
first_four_uncut(s) == s

\* sokstrategier[:4]
first_four(s) == SubSeq(s, 1, IF Len(s) < 4 THEN Len(s) ELSE 4)

intelligent_search_builder(fornamn, efternamn, ort, gata, alder) ==
    first_four(sort_by_conf(strategies_appended(fornamn, efternamn, ort, gata, alder)))

\* url = f"https://www.merinfo.se/search?q={urllib.parse.quote_plus(strategi)}"
search_url(query) == <<"https://www.merinfo.se", "/search?q=">> \o query

\* hashlib.md5(url.encode()).hexdigest(), taken to be injective
cache_key(url) == <<"md5">> \o url

(***************************************************************************)
(* calculate_quality_score, in hundredths.  The float sums the code forms  *)
(* (0.5, a bonus, then 0.05 at a time) grow strictly with every term and   *)
(* pass 1.0 exactly when the sum in hundredths passes 100, so hundredths   *)
(* order the scores as the floats do.                                      *)
(***************************************************************************)
RECURSIVE completeness(_)
completeness(personer) ==
    IF personer = <<>> THEN 0
    ELSE LET p == Head(personer)
         IN  (IF p.adress # "" THEN 5 ELSE 0)
             + (IF TruthyInt(p.alder) THEN 5 ELSE 0)
             + (IF p.kon # None THEN 5 ELSE 0)
             + completeness(Tail(personer))

Min(a, b) == IF a < b THEN a ELSE b

\* faulty variant: no floor
Max_second(a, b) == b

Max(a, b) == IF a > b THEN a ELSE b

\* faulty variant: only the base score is given
calculate_quality_score_base_only(personer, fordon) ==
    IF personer = <<>> THEN 0 ELSE 50

calculate_quality_score(personer, fordon) ==
    IF personer = <<>> THEN 0
    ELSE Min(100,
             50
             + (IF Len(personer) = 1 THEN 30
                ELSE IF Len(personer) <= 3 THEN 10 ELSE 0)
             + (IF fordon > 0 THEN 20 ELSE 0)
             + completeness(personer))

(***************************************************************************)
(* rate_limit                                                              *)
(***************************************************************************)
\* base_delay = min_delay, times (1 + error_count * 0.5) after errors
base_delay(e) == IF e > 0 THEN (min_delay * (2 + e)) \div 2 ELSE min_delay

\* random.uniform(a, b) lies between its two arguments in whichever order
\* they come; the model draws its two ends
uniform(a, b) == {a, b}

\* faulty variant: rate_limit never waits
rate_limit_sleeps_none(t, last, e) == {0}

\* The sleeps rate_limit may take at time t: none when the last request is
\* base_delay or more ago, else random.uniform(base_delay, max_delay).
rate_limit_sleeps(t, last, e) ==
    IF t - last < base_delay(e)
    THEN uniform(base_delay(e), max_delay)
    ELSE {0}

\* faulty variant: the time is taken before the sleep
rate_limit_marks_before_sleep(t, d, count) ==
    [last_request_time |-> t, request_count |-> count + 1]

\* faulty variant: the acquisition is not counted
rate_limit_marks_uncounted(t, d, count) ==
    [last_request_time |-> t + d, request_count |-> count]

\* the end of rate_limit, entered at time t, after a sleep of d:
\* "self.last_request_time = time.time(); self.request_count += 1"
rate_limit_marks(t, d, count) ==
    [last_request_time |-> t + d, request_count |-> count + 1]

\* backoff_delay = (2 ** attempt) + random.uniform(1, 3)
backoff_delays(attempt) == {(2 ^ attempt) + j : j \in uniform(1, 3)}

\* seconds a request may take before it answers or fails
Latencies == {0, 1}

\* time.time() when the scraper is built: last_request_time starts at 0, an
\* epoch so long ago that the first rate_limit never sleeps
StartTime == max_delay + 1

MaxClock == StartTime + MaxElapsed

(***************************************************************************)
(* safe_request                                                            *)
(***************************************************************************)
\* a URL whose text cannot be encoded (a lone surrogate): url.encode() raises
BadUrl == <<"\\udc80">>

encodable(url) == url # BadUrl

NoSr == [url |-> <<>>, retries |-> 0, attempt |-> 0, caller |-> "none",
         result |-> None]

\* history of the current (or last) safe_request call: how it ended, when,
\* the timestamp of the cache entry that served or stored its page, whether
\* it was served from the cache, the requests it sent and how they ended,
\* whether it repeats the URL of the call before it within the ttl, and
\* how long its last rate_limit slept
NoCall == [result |-> "none", ended |-> 0, entry_ts |-> 0, hit |-> FALSE,
           gets |-> 0, oks |-> 0, transport |-> 0, other |-> 0,
           repeat |-> FALSE, repeat_of_page |-> FALSE, slept |-> 0]

\* where control goes when safe_request returns to its caller
ReturnPc(caller) ==
    CASE caller = "direct"  -> "idle"
      [] caller = "results" -> "results"
      [] caller = "profile" -> "profile"

\* faulty variant: one iteration more than range(retries + 1)
loop_continues_once_more(attempt, retries) == attempt + 1 <= retries + 1

\* "for attempt in range(retries + 1)": there is an iteration after `attempt`
loop_continues(attempt, retries) == attempt + 1 <= retries

\* faulty variant: a success that is not written to the cache
store_page_skipped(c, key, page, t, cap) == c

\* self.cache.set(cache_key, {'html': str(soup)})
store_page(c, key, page, t, cap) == cache_set_state(c, key, page, t, cap)

\* The entry of safe_request: retries defaulted, the cache key computed and
\* the cache consulted.  A hit returns at once; a miss starts the attempt
\* loop; a URL that cannot be encoded raises before anything else happens.
SafeRequestEnter(url, retriesArg, caller) ==
    LET retries == IF retriesArg = Absent THEN max_retries ELSE retriesArg[1]
        key == cache_key(url)
        cached == cache_get_value(cache, key, now, ttl)
        started == [NoCall EXCEPT
                      !.result = "running",
                      !.ended = now,
                      !.repeat = /\ call.result \in {"page", "None"}
                                 /\ sr.url = url
                                 /\ now - call.ended < ttl,
                      !.repeat_of_page = /\ call.result = "page"
                                         /\ sr.url = url
                                         /\ now - call.entry_ts < ttl]
        locals == [url |-> url, retries |-> retries, attempt |-> 0,
                   caller |-> caller, result |-> None]
    IN  /\ UNCHANGED <<now, request_count, last_request_time, error_count>>
        /\ IF ~encodable(url)
           THEN /\ cache' = cache
                /\ call' = [started EXCEPT !.result = "raised"]
                /\ sr' = [locals EXCEPT !.result = "raised"]
                /\ pc' = ReturnPc(caller)
           ELSE /\ cache' = cache_get_state(cache, key, now, ttl)
                /\ IF cached # None
                   THEN /\ call' = [started EXCEPT
                                      !.result = "page", !.hit = TRUE,
                                      !.entry_ts = EntryOf(cache, key).ts]
                        /\ sr' = [locals EXCEPT !.result = cached]
                        /\ pc' = ReturnPc(caller)
                   ELSE IF retries + 1 <= 0
                   THEN /\ call' = [started EXCEPT !.result = "None"]
                        /\ sr' = locals
                        /\ pc' = ReturnPc(caller)
                   ELSE /\ call' = started
                        /\ sr' = locals
                        /\ pc' = "attempt"

\* what a top-level call returned
Returned(fn, page, outcome) == [fn |-> fn, page |-> page, outcome |-> outcome]

NoOutcome == [success |-> FALSE, persons |-> <<>>, vehicles |-> 0,
              quality_score |-> 0, error_message |-> None,
              search_strategy |-> Absent, response_time |-> Absent,
              suggestions |-> <<>>]

\* "response_time=time.time() - start_time", evaluated at time t
timed(outcome, t, start_time) ==
    [outcome EXCEPT !.response_time = <<t - start_time>>]

\* safe_request(url, retries) called by the user of the scraper
CallSafeRequest(url, retriesArg) ==
    /\ pc = "idle"
    /\ calls < MaxCalls
    /\ calls' = calls + 1
    /\ SafeRequestEnter(url, retriesArg, "direct")
    /\ ret' = IF pc' = "idle"
              THEN Returned("safe_request", sr'.result, NoOutcome)
              ELSE ret
    /\ UNCHANGED <<max_size, ttl, last_op, setRun, sp>>

\* safe_request leaves its loop with `result`
Leave(result) ==
    /\ sr' = [sr EXCEPT !.result = result]
    /\ pc' = ReturnPc(sr.caller)
    /\ ret' = IF sr.caller = "direct"
              THEN Returned("safe_request", result, NoOutcome)
              ELSE ret

\* what random.uniform may give: any of the values, or only the smallest
Drawn(draw, S) ==
    IF draw = "shortest" THEN {x \in S : \A y \in S : x <= y} ELSE S

\* One iteration of the attempt loop, with the clock running up to `horizon`,
\* the request taking one of `latencies`, a served page being one of `pages`
\* and the random sleeps drawn by
\* `draw`: rate_limit, the request, and then
\* either the success path, the RequestException handler (with its backoff
\* sleep when an iteration follows) or the handler of any other exception.
AttemptWithin(horizon, latencies, pages, draw) ==
    /\ pc = "attempt"
    /\ \E d \in Drawn(draw, rate_limit_sleeps(now, last_request_time, error_count)) :
       \E lat \in latencies :
         LET sent == now + d
             done == sent + lat
         IN  /\ done <= horizon
             /\ last_request_time' =
                    rate_limit_marks(now, d, request_count).last_request_time
             /\ request_count' =
                    rate_limit_marks(now, d, request_count).request_count
             /\ \/ \E page \in pages :
                     /\ cache' = store_page(cache, cache_key(sr.url), page,
                                            done, max_size)
                     /\ error_count' = Max(0, error_count - 1)
                     /\ now' = done
                     /\ call' = [call EXCEPT !.gets = @ + 1, !.oks = @ + 1,
                                             !.slept = d,
                                             !.entry_ts = done,
                                             !.ended = done,
                                             !.result = "page"]
                     /\ Leave(page)
                \/ /\ error_count' = error_count + 1
                   /\ cache' = cache
                   /\ IF loop_continues(sr.attempt, sr.retries)
                      THEN \E b \in Drawn(draw, backoff_delays(sr.attempt)) :
                             /\ done + b <= horizon
                             /\ now' = done + b
                             /\ sr' = [sr EXCEPT !.attempt = @ + 1]
                             /\ call' = [call EXCEPT !.gets = @ + 1,
                                                     !.slept = d,
                                                     !.transport = @ + 1]
                             /\ UNCHANGED <<pc, ret>>
                      ELSE /\ now' = done
                           /\ call' = [call EXCEPT !.gets = @ + 1,
                                                   !.slept = d,
                                                   !.transport = @ + 1,
                                                   !.ended = done,
                                                   !.result = "None"]
                           /\ Leave(None)
                \/ /\ UNCHANGED <<error_count, cache>>
                   /\ now' = done
                   /\ call' = [call EXCEPT !.gets = @ + 1, !.other = @ + 1,
                                           !.slept = d,
                                           !.ended = done,
                                           !.result = "None"]
                   /\ Leave(None)
    /\ UNCHANGED <<max_size, ttl, last_op, setRun, sp, calls>>

Attempt == AttemptWithin(MaxClock, Latencies, Pages, "any")

\* get_stats: 'success_rate': (request_count - error_count)
\*                             / max(1, request_count) * 100,
\* in whole percent, rounded down
success_rate(requests, errors) ==
    ((requests - errors) * 100) \div Max(1, requests)

(***************************************************************************)
(* search_person                                                           *)
(***************************************************************************)
FornamnArgs == {None, "anna", "?"}
EfternamnArgs == {None, "", " berg "}
OrtArgs == {None, " ", "umea"}
GataArgs == {None, "storgatan"}
AlderArgs == {Absent, <<0>>, <<40>>}

\* the locals of search_person; `absent` is history: fornamn, efternamn and
\* ort of the call were all None or empty; `seen` is history too: the
\* candidates whose results page gave 2 or 3 persons, with that page; and
\* so are `failed`: how many candidates' results fetches gave no page,
\* `sparse`: ort was absent after normalisation and the age row could not
\* apply, and `acquired0`: request_count when the call began
NoSp == [absent |-> FALSE, strategier |-> <<>>, i |-> 0,
         basta_resultat |-> <<>>, basta_poang |-> 0, personer |-> <<>>,
         start_time |-> 0,
         seen |-> <<>>, failed |-> 0, sparse |-> FALSE, acquired0 |-> 0]

AllAbsent(fornamn, efternamn, ort) ==
    /\ fornamn \in {None, ""}
    /\ efternamn \in {None, ""}
    /\ ort \in {None, ""}

\* faulty variant: only None counts as a missing criterion
no_criterion_none_only(fornamn, efternamn, ort) ==
    fornamn = None /\ efternamn = None /\ ort = None

\* "if not any([fornamn, efternamn, ort])"
no_criterion(fornamn, efternamn, ort) ==
    ~(Truthy(fornamn) \/ Truthy(efternamn) \/ Truthy(ort))

validation_failure ==
    [NoOutcome EXCEPT
       !.error_message = "Minst ett sokkriterium kravs (fornamn, efternamn eller ort)"]

not_found == [NoOutcome EXCEPT !.error_message = "Inga resultat hittades"]

\* generate_suggestions: the distinct non-empty streets and the distinct
\* truthy ages of the persons (a Python set has no order; five of each at most)
generate_suggestions(personer) ==
    IF Len(personer) > 1
    THEN LET gator == {personer[j].gata : j \in {n \in 1..Len(personer) :
                                                   personer[n].gata # ""}}
             aldrar == {personer[j].alder[1] : j \in {n \in 1..Len(personer) :
                                                   TruthyInt(personer[n].alder)}}
         IN  (IF gator # {} THEN <<[kind |-> "gata", gator |-> gator,
                                    aldrar |-> {}]>> ELSE <<>>)
             \o (IF aldrar # {} THEN <<[kind |-> "alder", gator |-> {},
                                        aldrar |-> aldrar]>> ELSE <<>>)
    ELSE <<>>

\* ort is empty after normalisation, and alder is None or 0 or one of the
\* names is empty after normalisation
SparseArgs(fornamn, efternamn, ort, alder) ==
    /\ ~Truthy(normalized(ort))
    /\ \/ alder = Absent
       \/ alder = <<0>>
       \/ ~Truthy(normalized(fornamn))
       \/ ~Truthy(normalized(efternamn))

\* The start of search_person: validation, then the strategies.
CallSearchPerson(fornamn, efternamn, ort, gata, alder) ==
    /\ pc = "idle"
    /\ calls' = calls + 1
    /\ IF no_criterion(fornamn, efternamn, ort)
       THEN /\ ret' = Returned("search_person", None, validation_failure)
            /\ sp' = [NoSp EXCEPT
                        !.absent = AllAbsent(fornamn, efternamn, ort),
                        !.start_time = now,
                        !.sparse = SparseArgs(fornamn, efternamn, ort, alder),
                        !.acquired0 = request_count]
            /\ pc' = "idle"
       ELSE /\ sp' = [NoSp EXCEPT
                        !.absent = AllAbsent(fornamn, efternamn, ort),
                        !.start_time = now,
                        !.sparse = SparseArgs(fornamn, efternamn, ort, alder),
                        !.acquired0 = request_count,
                        !.strategier = intelligent_search_builder(
                                           fornamn, efternamn, ort, gata, alder),
                        !.i = 1]
            /\ pc' = "loop"
            /\ ret' = ret
    /\ UNCHANGED <<cacheVars, request_count, last_request_time, error_count,
                   sr, call>>

\* The head of "for strategi, konfidenspoang in strategier": the next
\* candidate's results page is requested, or the loop is over and the best
\* fallback, or "no results", is returned.
SearchNext ==
    /\ pc = "loop"
    /\ IF sp.i <= Len(sp.strategier)
       THEN /\ SafeRequestEnter(search_url(sp.strategier[sp.i].query), Absent,
                                "results")
            /\ UNCHANGED <<sp, ret>>
       ELSE /\ ret' = Returned("search_person", None,
                               IF sp.basta_resultat # <<>>
                               THEN sp.basta_resultat[1]
                               ELSE timed(not_found, now, sp.start_time))
            /\ pc' = "idle"
            /\ UNCHANGED <<now, cache, request_count, last_request_time,
                           error_count, sr, sp, call>>
    /\ UNCHANGED <<max_size, ttl, last_op, setRun, calls>>

\* faulty variant: a single match gives way to a fallback recorded earlier
single_match_outcome_prefers_fallback(personer, fordon, strategi, best) ==
    IF best # <<>> THEN best[1]
    ELSE [NoOutcome EXCEPT !.success = TRUE, !.persons = personer,
                           !.vehicles = fordon,
                           !.quality_score = calculate_quality_score(personer, fordon),
                           !.search_strategy = <<strategi>>]

\* the SearchResult of the branch "len(personer) == 1"
single_match_outcome(personer, fordon, strategi, best) ==
    [NoOutcome EXCEPT !.success = TRUE, !.persons = personer,
                      !.vehicles = fordon,
                      !.quality_score = calculate_quality_score(personer, fordon),
                      !.search_strategy = <<strategi>>]

\* the SearchResult of the branch "len(personer) <= 3"
fallback_outcome(personer, strategi) ==
    [NoOutcome EXCEPT !.persons = personer,
                      !.quality_score = calculate_quality_score(personer, 0),
                      !.error_message = "Flera resultat, specificera gata",
                      !.search_strategy = <<strategi>>,
                      !.suggestions = generate_suggestions(personer)]

\* faulty variant: a failed candidate ends the loop
after_continue_break(s) == [s EXCEPT !.i = Len(s.strategier) + 1]

\* "continue": on to the next candidate
after_continue(s) == [s EXCEPT !.i = @ + 1]

\* faulty variant: no profile is ever fetched
has_profile_never(person) == FALSE

\* fetch_vehicle_info_robust: "if not profil_url: return []"
has_profile(person) == person.profil_url # Absent

\* faulty variant: any number of persons is kept as a fallback
is_fallback_any(personer) == TRUE

\* "elif len(personer) <= 3"
is_fallback(personer) == Len(personer) <= 3

\* faulty variant: an equal score replaces the fallback too
replaces_fallback_on_tie(poang, basta_poang) == poang >= basta_poang

\* "if kvalitetspoang > basta_poang"
replaces_fallback(poang, basta_poang) == poang > basta_poang

\* The body of the loop once safe_request has returned the results page.
AfterResults ==
    /\ pc = "results"
    /\ LET personer == IF sr.result \in Pages
                       THEN extract_all_persons_robust(sr.result) ELSE <<>>
           strategi == sp.strategier[sp.i].query
           next == after_continue(sp)
       IN  IF sr.result \notin Pages \/ personer = <<>>
           THEN \* "continue": no page (or safe_request raised), or no person
                /\ sp' = IF sr.result \notin Pages
                         THEN [next EXCEPT !.failed = sp.failed + 1]
                         ELSE next
                /\ pc' = "loop"
                /\ UNCHANGED <<now, cache, request_count, last_request_time,
                               error_count, sr, ret, call>>
           ELSE IF Len(personer) = 1
           THEN IF ~has_profile(personer[1])
                THEN \* fetch_vehicle_info_robust returns [] without a fetch
                     /\ ret' = Returned("search_person", None,
                                   timed(single_match_outcome(personer, 0,
                                             strategi, sp.basta_resultat),
                                         now, sp.start_time))
                     /\ sp' = [sp EXCEPT !.personer = personer]
                     /\ pc' = "idle"
                     /\ UNCHANGED <<now, cache, request_count, last_request_time,
                                    error_count, sr, call>>
                ELSE /\ SafeRequestEnter(personer[1].profil_url[1], Absent,
                                         "profile")
                     /\ sp' = [sp EXCEPT !.personer = personer]
                     /\ ret' = ret
           ELSE IF is_fallback(personer)
           THEN /\ sp' = LET seen == [next EXCEPT
                                        !.seen = Append(@, [i |-> sp.i,
                                                            page |-> sr.result])]
                         IN  IF replaces_fallback(
                                    calculate_quality_score(personer, 0),
                                    sp.basta_poang)
                             THEN [seen EXCEPT
                                     !.basta_resultat =
                                         <<timed(fallback_outcome(personer,
                                                                  strategi),
                                                 now, sp.start_time)>>,
                                     !.basta_poang =
                                         calculate_quality_score(personer, 0)]
                             ELSE seen
                /\ pc' = "loop"
                /\ UNCHANGED <<now, cache, request_count, last_request_time,
                               error_count, sr, ret, call>>
           ELSE /\ sp' = next
                /\ pc' = "loop"
                /\ UNCHANGED <<now, cache, request_count, last_request_time,
                               error_count, sr, ret, call>>
    /\ UNCHANGED <<max_size, ttl, last_op, setRun, calls>>

\* fetch_vehicle_info_robust once safe_request has returned the profile page,
\* and the return of the single-match outcome.
AfterProfile ==
    /\ pc = "profile"
    /\ LET fordon == IF sr.result \in Pages
                     THEN PageContent(sr.result).vehicles ELSE 0
       IN  ret' = Returned("search_person", None,
                           timed(single_match_outcome(sp.personer, fordon,
                                     sp.strategier[sp.i].query,
                                     sp.basta_resultat),
                                 now, sp.start_time))
    /\ pc' = "idle"
    /\ UNCHANGED <<cacheVars, request_count, last_request_time, error_count,
                   sr, sp, call, calls>>

\* Time passes while the scraper is not in use.  Before the first request
\* nothing depends on the time, so the clock is left where it starts.
Idle ==
    /\ pc = "idle"
    /\ request_count > 0
    /\ now < MaxClock
    /\ now' = now + 1
    /\ UNCHANGED <<cache, max_size, ttl, last_op, setRun, scraperVars>>

DirectUrls == {search_url(<<"Anna", "Umea">>), ProfileUrl, BadUrl}
RetriesArgs == {Absent, <<0>>}

\* RobustMerinfoScraper.__init__
ScraperInit ==
    /\ request_count = 0
    /\ last_request_time = 0
    /\ error_count = 0
    /\ pc = "idle"
    /\ sr = NoSr
    /\ sp = NoSp
    /\ ret = Returned("none", None, NoOutcome)
    /\ call = NoCall
    /\ calls = 0

(***************************************************************************)
(* The fetcher specification: one thread calls safe_request on a new       *)
(* scraper, up to MaxCalls times, and lets time pass between the calls.    *)
(***************************************************************************)
Init ==
    /\ now = StartTime
    /\ cache = <<>>
    /\ max_size = CacheCap
    /\ ttl = CacheTtl
    /\ last_op = NoOp
    /\ setRun = <<>>
    /\ ScraperInit

Next ==
    \/ \E url \in DirectUrls : \E r \in RetriesArgs : CallSafeRequest(url, r)
    \/ Attempt
    \/ Idle

Spec == Init /\ [][Next]_vars

(***************************************************************************)
(* The search specification: one search_person call on a scraper that is   *)
(* new or has served safe_request before.  The states it starts from are   *)
(* states the fetcher specification reaches.                               *)
(***************************************************************************)
\* the cache after successful fetches of some of the direct URLs at time t
WarmCaches(t) ==
    {<<>>,
     <<[key |-> cache_key(ProfileUrl), data |-> "cars", ts |-> t]>>,
     <<[key |-> cache_key(search_url(<<"Anna", "Umea">>)), data |-> "two",
        ts |-> t]>>}

SearchStart ==
    \/ /\ request_count = 0        \* a new scraper
       /\ error_count = 0
       /\ last_request_time = 0
       /\ cache = <<>>
       /\ now = StartTime
    \/ /\ request_count = 1        \* after one request, sent at StartTime
       /\ last_request_time = StartTime
       /\ \/ error_count = 1 /\ cache = <<>>
          \/ error_count = 0 /\ cache \in WarmCaches(StartTime) \ {<<>>}
       /\ now \in {StartTime, StartTime + CacheTtl}

InitSearch ==
    /\ SearchStart
    /\ max_size = CacheCap
    /\ ttl = CacheTtl
    /\ last_op = NoOp
    /\ setRun = <<>>
    /\ pc = "idle"
    /\ sr = NoSr
    /\ sp = NoSp
    /\ ret = Returned("none", None, NoOutcome)
    /\ call = NoCall
    /\ calls = 0

\* the one search of a behaviour
SearchOnce(f, e, o, g, a) == calls = 0 /\ CallSearchPerson(f, e, o, g, a)

NextSearch ==
    \/ \E f \in FornamnArgs : \E e \in EfternamnArgs : \E o \in OrtArgs :
         \E g \in GataArgs : \E a \in AlderArgs : SearchOnce(f, e, o, g, a)
    \/ SearchNext
    \/ AfterResults
    \/ AfterProfile
    \/ Attempt

SpecSearch == InitSearch /\ [][NextSearch]_vars

(***************************************************************************)
(* Specifications of the pure functions.  Each starts with the arguments   *)
(* of one call in `ret` and has one action, which applies the function.    *)
(* The other variables stay as a new scraper has them.                     *)
(***************************************************************************)
Unused ==
    /\ now = StartTime
    /\ cache = <<>>
    /\ max_size = CacheCap
    /\ ttl = CacheTtl
    /\ last_op = NoOp
    /\ setRun = <<>>
    /\ request_count = 0
    /\ last_request_time = 0
    /\ error_count = 0
    /\ pc = "idle"
    /\ sr = NoSr
    /\ sp = NoSp
    /\ call = NoCall
    /\ calls = 0

Pending(args) == [fn |-> "none", args |-> args, result |-> <<>>]

Apply(fn, result) ==
    /\ ret.fn = "none"
    /\ ret' = [ret EXCEPT !.fn = fn, !.result = result]
    /\ UNCHANGED <<cacheVars, request_count, last_request_time, error_count,
                   pc, sr, sp, call, calls>>

\* intelligent_search_builder on every combination of the argument values
InitBuilder ==
    /\ Unused
    /\ \E f \in FornamnArgs : \E e \in EfternamnArgs : \E o \in OrtArgs :
         \E g \in GataArgs : \E a \in AlderArgs :
           ret = Pending([fornamn |-> f, efternamn |-> e, ort |-> o,
                          gata |-> g, alder |-> a])

Build ==
    Apply("intelligent_search_builder",
          intelligent_search_builder(ret.args.fornamn, ret.args.efternamn,
                                     ret.args.ort, ret.args.gata,
                                     ret.args.alder))

SpecBuilder == InitBuilder /\ [][Build]_vars

\* calculate_quality_score on every list of up to MaxPersons persons and
\* up to MaxVehicles vehicles
MaxPersons == 4
MaxVehicles == 1

PersonKinds ==
    {Person("A", Absent, ad, "", al, k) :
        ad \in {"", "Storgatan 1"}, al \in {Absent, <<0>>, <<40>>},
        k \in {None, "Man"}}

RECURSIVE PersonLists(_)
PersonLists(n) ==
    IF n = 0 THEN {<<>>}
    ELSE PersonLists(n - 1)
         \cup {Append(l, p) : l \in {x \in PersonLists(n - 1) : Len(x) = n - 1},
                              p \in PersonKinds}

InitScore ==
    /\ Unused
    /\ \E personer \in PersonLists(MaxPersons) : \E fordon \in 0..MaxVehicles :
         ret = Pending([personer |-> personer, fordon |-> fordon])

Score ==
    Apply("calculate_quality_score",
          calculate_quality_score(ret.args.personer, ret.args.fordon))

SpecScore == InitScore /\ [][Score]_vars

(***************************************************************************)
(* The whole-call specification: one search_person call on a new scraper,  *)
(* followed to its return, whatever each request gives: one of three       *)
(* pages, a transport error or another error.  The requests take no time   *)
(* and every random sleep is the shortest it can be, so that the clock is  *)
(* a function of what happened; it may run for CallElapsed, more than the  *)
(* longest call needs.  The thread keeps running: every sleep ends and     *)
(* every request returns or raises within its timeout.                     *)
(***************************************************************************)
\* the most attempts of a call: five fetches of max_retries + 1 attempts
CallAttempts == 5 * (max_retries + 1)

\* no sleep of rate_limit is longer than max_delay or than the longest
\* base_delay, and no backoff is longer than 2 ** max_retries + 3
CallElapsed ==
    CallAttempts * (Max(max_delay, base_delay(CallAttempts))
                    + 2 ^ max_retries + 3)

CallClock == StartTime + CallElapsed

InitCall == InitSearch /\ request_count = 0

\* what a request of the call may be answered with: a page without persons,
\* one with a single person who has a profile, one with three persons
CallPages == {"empty", "one", "three"}

AttemptOfCall == AttemptWithin(CallClock, {0}, CallPages, "shortest")

CallSteps == SearchNext \/ AfterResults \/ AfterProfile \/ AttemptOfCall

NextCall ==
    \/ \E f \in FornamnArgs : \E e \in EfternamnArgs : \E o \in OrtArgs :
         \E g \in GataArgs : \E a \in AlderArgs : SearchOnce(f, e, o, g, a)
    \/ SearchNext
    \/ AfterResults
    \/ AfterProfile
    \/ AttemptOfCall

SpecCall == InitCall /\ [][NextCall]_vars /\ WF_vars(CallSteps)

(***************************************************************************)
(* The race specification: two callers share one MerinfoCache without a    *)
(* lock and each runs set() once, for a new key of its own.  set() is      *)
(* taken in the steps another thread can come between: the size test, the  *)
(* choice of the oldest key, its deletion, the insertion.  `last_op` holds *)
(* the two callers: where each is in set(), its key, the oldest key it     *)
(* chose, the error that ended it, and whether it ran while the other was  *)
(* inside set().                                                           *)
(***************************************************************************)
Callers == {1, 2}

Other(t) == 3 - t

CallerKey(t) == MaxCap + t

NewCaller(t) == [pc |-> "test", key |-> CallerKey(t), oldest_key |-> 0,
                 error |-> None, raced |-> FALSE]

\* a cache of n entries, the i-th stored at time i
RECURSIVE Prefilled(_)
Prefilled(n) ==
    IF n = 0 THEN <<>>
    ELSE Append(Prefilled(n - 1), [key |-> n, data |-> "a", ts |-> n])

InitRace ==
    /\ max_size \in 1..MaxCap
    /\ \E n \in 0..max_size : cache = Prefilled(n)
    /\ now = MaxCap + 1
    /\ ttl = MaxTtl
    /\ last_op = <<NewCaller(1), NewCaller(2)>>
    /\ setRun = <<>>
    /\ ScraperInit

Inside(c) == c.pc \in {"pick", "del", "store"}

\* caller t moves on; both callers are marked when t is inside set() together
\* with the other
Moved(t, to, oldest_key, error) ==
    LET mine == [last_op[t] EXCEPT !.pc = to, !.oldest_key = oldest_key,
                                   !.error = error]
        both == Inside(mine) /\ Inside(last_op[Other(t)])
    IN  last_op' = [k \in Callers |->
                      IF k = t
                      THEN [mine EXCEPT !.raced = @ \/ both]
                      ELSE [last_op[k] EXCEPT !.raced = @ \/ both]]

\* "if len(self.cache) >= self.max_size:"
SizeTest(t) ==
    /\ last_op[t].pc = "test"
    /\ Moved(t, IF needs_eviction(cache, max_size) THEN "pick" ELSE "store",
             0, None)
    /\ UNCHANGED <<now, cache, max_size, ttl, setRun, scraperVars>>

\* "oldest_key = min(self.cache.keys(), key=...)": ValueError on an empty dict
PickOldest(t) ==
    /\ last_op[t].pc = "pick"
    /\ IF cache = <<>>
       THEN Moved(t, "raised", 0, "ValueError")
       ELSE Moved(t, "del", cache[oldest_index(cache)].key, None)
    /\ UNCHANGED <<now, cache, max_size, ttl, setRun, scraperVars>>

\* "del self.cache[oldest_key]": KeyError when the key is gone
DeleteOldest(t) ==
    /\ last_op[t].pc = "del"
    /\ IF last_op[t].oldest_key \in KeysOf(cache)
       THEN /\ cache' = Remove(cache, IndexOf(cache, last_op[t].oldest_key))
            /\ Moved(t, "store", last_op[t].oldest_key, None)
       ELSE /\ cache' = cache
            /\ Moved(t, "raised", last_op[t].oldest_key, "KeyError")
    /\ UNCHANGED <<now, max_size, ttl, setRun, scraperVars>>

\* "self.cache[key] = {'data': value, 'timestamp': time.time()}"
Insert(t) ==
    /\ last_op[t].pc = "store"
    /\ cache' = dict_store(cache, last_op[t].key, "b", now)
    /\ now' = now + 1
    /\ Moved(t, "done", last_op[t].oldest_key, None)
    /\ UNCHANGED <<max_size, ttl, setRun, scraperVars>>

NextRace ==
    \E t \in Callers :
        \/ SizeTest(t)
        \/ PickOldest(t)
        \/ DeleteOldest(t)
        \/ Insert(t)

SpecRace == InitRace /\ [][NextRace]_vars

(***************************************************************************)
(* extract_all_persons_robust on markup.  A page is what each selector of  *)
(* the ordered list does on it: soup.select raises, or finds a list of     *)
(* containers.  A container has a name link ("person"), has none           *)
(* ("nolink") or makes its extraction raise ("raises"); `id` tells the     *)
(* containers of a page apart.                                             *)
(***************************************************************************)
NumSelectors == 2
MaxContainers == 2

ContainerKinds == {"person", "nolink", "raises"}

\* the lists of up to MaxContainers containers a selector with number sel
\* may find
RECURSIVE ContainerLists(_, _)
ContainerLists(sel, n) ==
    IF n = 0 THEN {<<>>}
    ELSE ContainerLists(sel, n - 1)
         \cup {Append(l, [kind |-> k, id |-> <<sel, n>>]) :
                  l \in {x \in ContainerLists(sel, n - 1) : Len(x) = n - 1},
                  k \in ContainerKinds}

SelectorOutcomes(sel) ==
    {[raises |-> TRUE, found |-> <<>>]}
    \cup {[raises |-> FALSE, found |-> l] : l \in ContainerLists(sel, MaxContainers)}

RECURSIVE Markups(_)
Markups(n) ==
    IF n = 0 THEN {<<>>}
    ELSE {Append(m, o) : m \in Markups(n - 1), o \in SelectorOutcomes(n)}

\* faulty variant: the matches of all selectors, one after the other
RECURSIVE select_containers_merged(_)
select_containers_merged(markup) ==
    IF markup = <<>> THEN <<>>
    ELSE Head(markup).found \o select_containers_merged(Tail(markup))

\* "for selektor in selektorer": the first selector that does not raise and
\* finds something gives the containers
RECURSIVE select_containers(_)
select_containers(markup) ==
    IF markup = <<>> THEN <<>>
    ELSE IF ~Head(markup).raises /\ Head(markup).found # <<>>
         THEN Head(markup).found
         ELSE select_containers(Tail(markup))

\* extract_person_data_robust(container): the record, or None (here <<>>)
\* without a name link and when anything raises
extract_person_data_robust(container) ==
    IF container.kind = "person" THEN <<[namn |-> container.id]>> ELSE <<>>

\* "for i, container in enumerate(containers)": a record is appended when
\* there is one
RECURSIVE extract_each(_)
extract_each(containers) ==
    IF containers = <<>> THEN <<>>
    ELSE extract_person_data_robust(Head(containers))
         \o extract_each(Tail(containers))

persons_of_markup(markup) == extract_each(select_containers(markup))

InitExtract ==
    /\ Unused
    /\ \E markup \in Markups(NumSelectors) : ret = Pending([markup |-> markup])

Extract == Apply("extract_all_persons_robust", persons_of_markup(ret.args.markup))

SpecExtract == InitExtract /\ [][Extract]_vars

(***************************************************************************)
(* The age derived from a personnummer (extract_additional_person_data).   *)
(* A personnummer is modelled by its four leading digits: the year for the *)
(* 4-digit encoding YYYYMMDD-, year and month for the 2-digit encoding     *)
(* YYMMDD.                                                                 *)
(***************************************************************************)
FourDigitYears == 1900..2025
TwoDigitYears == 0..99
Months == 1..12

leading_digits(enc, year, month) ==
    IF enc = "yyyy"
    THEN <<year \div 1000, (year \div 100) % 10, (year \div 10) % 10, year % 10>>
    ELSE <<year \div 10, year % 10, month \div 10, month % 10>>

\* personnummer.startswith('19') or personnummer.startswith('20')
starts_with_19_or_20(p) == <<p[1], p[2]>> \in {<<1, 9>>, <<2, 0>>}

\* the birth year and, when it lies in 1900..2025, the age
derived_age(p) ==
    LET tva_siffror == 10 * p[1] + p[2]
        fodelsear ==
            IF starts_with_19_or_20(p)
            THEN 1000 * p[1] + 100 * p[2] + 10 * p[3] + p[4]
            ELSE IF tva_siffror <= 25 THEN 2000 + tva_siffror
                                      ELSE 1900 + tva_siffror
    IN  [fodelsear |-> fodelsear,
         alder |-> IF 1900 <= fodelsear /\ fodelsear <= 2025
                   THEN <<2025 - fodelsear>> ELSE Absent]

InitBirthYear ==
    /\ Unused
    /\ \E enc \in {"yyyy", "yy"} :
       \E year \in IF enc = "yyyy" THEN FourDigitYears ELSE TwoDigitYears :
       \E month \in Months :
         ret = Pending([enc |-> enc, year |-> year, month |-> month])

Derive ==
    Apply("extract_additional_person_data",
          derived_age(leading_digits(ret.args.enc, ret.args.year,
                                     ret.args.month)))

SpecBirthYear == InitBirthYear /\ [][Derive]_vars

(***************************************************************************)
(* The rate limiter specification: rate_limit acquisitions on one scraper, *)
(* each followed by a request that succeeds or fails.  It starts on a      *)
(* scraper whose requests so far, up to MaxErrors of them, have all failed, *)
(* the last one sent at StartTime; `calls` counts the acquisitions.        *)
(***************************************************************************)
MaxErrors == 5
MaxAcquisitions == 3

InitRate ==
    /\ now = StartTime
    /\ cache = <<>>
    /\ max_size = CacheCap
    /\ ttl = CacheTtl
    /\ last_op = NoOp
    /\ setRun = <<>>
    /\ error_count \in 0..MaxErrors
    /\ request_count = error_count
    /\ last_request_time = IF error_count = 0 THEN 0 ELSE StartTime
    /\ pc = "idle"
    /\ sr = NoSr
    /\ sp = NoSp
    /\ ret = Returned("none", None, NoOutcome)
    /\ call = NoCall
    /\ calls = 0

\* rate_limit()
RateLimit ==
    /\ pc = "idle"
    /\ calls < MaxAcquisitions
    /\ calls' = calls + 1
    /\ \E d \in rate_limit_sleeps(now, last_request_time, error_count) :
         /\ now' = now + d
         /\ last_request_time' =
                rate_limit_marks(now, d, request_count).last_request_time
         /\ request_count' =
                rate_limit_marks(now, d, request_count).request_count
         /\ call' = [call EXCEPT !.slept = d]
    /\ pc' = "sent"
    /\ UNCHANGED <<cache, max_size, ttl, last_op, setRun, error_count, sr, sp,
                   ret>>

\* the request after the acquisition answers: error_count = max(0, error_count - 1)
Answered ==
    /\ pc = "sent"
    /\ \E lat \in Latencies : now' = now + lat
    /\ error_count' = Max(0, error_count - 1)
    /\ pc' = "idle"
    /\ UNCHANGED <<cache, max_size, ttl, last_op, setRun, request_count,
                   last_request_time, sr, sp, ret, call, calls>>

\* the request after the acquisition fails: error_count += 1
Failed ==
    /\ pc = "sent"
    /\ error_count < MaxErrors
    /\ \E lat \in Latencies : now' = now + lat
    /\ error_count' = error_count + 1
    /\ pc' = "idle"
    /\ UNCHANGED <<cache, max_size, ttl, last_op, setRun, request_count,
                   last_request_time, sr, sp, ret, call, calls>>

\* time passes between two acquisitions
Pause ==
    /\ pc = "idle"
    /\ calls < MaxAcquisitions
    /\ request_count > 0
    /\ now - last_request_time < max_delay
    /\ now' = now + 1
    /\ UNCHANGED <<cache, max_size, ttl, last_op, setRun, scraperVars>>

NextRate == RateLimit \/ Answered \/ Failed \/ Pause

SpecRate == InitRate /\ [][NextRate]_vars

(***************************************************************************)
(* The cache specification: one MerinfoCache used by one thread.           *)
(***************************************************************************)
InitCache ==
    /\ now = 0
    /\ cache = <<>>
    /\ max_size \in 1..MaxCap
    /\ ttl \in 1..MaxTtl
    /\ last_op = NoOp
    /\ setRun = <<>>
    /\ ScraperInit

\* time passes between operations
Tick ==
    /\ now < MaxTime
    /\ now' = now + 1
    /\ last_op' = [op |-> "tick", key |-> 0, had |-> FALSE, ret |-> None]
    /\ UNCHANGED <<cache, max_size, ttl, setRun, scraperVars>>

Get(k) ==
    /\ cache' = cache_get_state(cache, k, now, ttl)
    /\ last_op' = [op |-> "get", key |-> k, had |-> k \in KeysOf(cache),
                   ret |-> cache_get_value(cache, k, now, ttl)]
    /\ setRun' = IF cache' = <<>> THEN <<>> ELSE Broken
    /\ UNCHANGED <<now, max_size, ttl, scraperVars>>

Set(k, v) ==
    /\ cache' = cache_set_state(cache, k, v, now, max_size)
    /\ last_op' = [op |-> "set", key |-> k, had |-> k \in KeysOf(cache),
                   ret |-> None]
    /\ setRun' = IF /\ setRun # Broken
                    /\ Len(setRun) <= max_size
                    /\ \A i \in 1..Len(setRun) : setRun[i] # k
                 THEN Append(setRun, k)
                 ELSE Broken
    /\ UNCHANGED <<now, max_size, ttl, scraperVars>>

Clear ==
    /\ cache' = <<>>
    /\ last_op' = [op |-> "clear", key |-> 0, had |-> FALSE, ret |-> None]
    /\ setRun' = <<>>
    /\ UNCHANGED <<now, max_size, ttl, scraperVars>>

NextCache ==
    \/ Tick
    \/ \E k \in CacheKeys : Get(k)
    \/ \E k \in CacheKeys : \E v \in Payloads : Set(k, v)
    \/ Clear

SpecCache == InitCache /\ [][NextCache]_vars

(***************************************************************************)
(* Claims about the cache, checked under SpecCache.                        *)
(***************************************************************************)
MinTs(c) == CHOOSE t \in {c[i].ts : i \in 1..Len(c)} :
                \A i \in 1..Len(c) : t <= c[i].ts

\* C2: in single-threaded use, after any sequence of get, set and clear on a
\* cache with max_size >= 1, the number of stored entries never exceeds
\* max_size.
C2_SizeNeverExceedsMaxSize == Len(cache) <= max_size

\* a full cache that max_size + 1 sets in a row have gone through
C2_Witness ==
    /\ setRun # Broken
    /\ Len(setRun) = max_size + 1
    /\ Len(cache) = max_size

\* C3: from an empty cache, setting max_size + 1 distinct keys one after
\* another leaves exactly max_size entries and the missing key is the one set
\* first; and every entry a set removes has the minimal insertion timestamp
\* of the entries stored before the set.
C3_RunLeavesAllButFirst ==
    (setRun # Broken /\ Len(setRun) = max_size + 1) =>
        /\ Len(cache) = max_size
        /\ KeysOf(cache) = {setRun[i] : i \in 2..Len(setRun)}

C3_EvictsMinimalTimestamp ==
    last_op'.op = "set" =>
        \A k \in KeysOf(cache) \ KeysOf(cache') :
            EntryOf(cache, k).ts = MinTs(cache)

C3_EvictsEarliest ==
    /\ [](C3_RunLeavesAllButFirst)
    /\ [][C3_EvictsMinimalTimestamp]_vars

\* max_size + 1 keys were set at different times and the first one is gone
C3_Witness ==
    /\ setRun # Broken
    /\ Len(setRun) = max_size + 1
    /\ setRun[1] \notin KeysOf(cache)
    /\ \E i, j \in 1..Len(cache) : cache[i].ts # cache[j].ts

\* C4: get(key) returns the stored payload exactly when the key is stored and
\* now - insertedAt < ttl; a stored key with now - insertedAt >= ttl gives
\* absent and that entry is removed; no other entry changes and no insertion
\* timestamp is refreshed.
C4_GetStep ==
    last_op'.op = "get" =>
        LET k == last_op'.key
            r == last_op'.ret
        IN  /\ k \notin KeysOf(cache) => (r = None /\ cache' = cache)
            /\ (k \in KeysOf(cache) /\ now - EntryOf(cache, k).ts < ttl) =>
                   (r = EntryOf(cache, k).data /\ cache' = cache)
            /\ (k \in KeysOf(cache) /\ now - EntryOf(cache, k).ts >= ttl) =>
                   /\ r = None
                   /\ cache' = Remove(cache, IndexOf(cache, k))

C4_GetHonoursTtl == [][C4_GetStep]_vars

\* a get has just removed an expired entry and left another one in place
C4_Witness ==
    /\ last_op.op = "get"
    /\ last_op.had
    /\ last_op.ret = None
    /\ last_op.key \notin KeysOf(cache)
    /\ cache # <<>>

\* C5: set(key, payload) evicts an entry only if inserting would make the size
\* exceed max_size; a set of a key that is already stored in a full cache
\* removes no entry.
C5_SetStep ==
    (last_op'.op = "set" /\ (last_op'.key \in KeysOf(cache) \/ Len(cache) < max_size))
        => KeysOf(cache) \subseteq KeysOf(cache')

C5_SetEvictsOnlyOnOverflow == [][C5_SetStep]_vars

(***************************************************************************)
(* Claims about safe_request, checked under Spec, and about search_person, *)
(* checked under SpecSearch.                                               *)
(***************************************************************************)
\* a step in which safe_request is entered: called directly, for the results
\* page of the next candidate, or for the profile page of a single match
EnterStep ==
    \/ pc = "idle" /\ calls' = calls + 1 /\ sr'.caller = "direct"
    \/ pc = "loop" /\ pc' # "idle"
    \/ pc = "results" /\ pc' \in {"attempt", "profile"}

\* C1: a search_person call in which fornamn, efternamn and ort are all None
\* or empty, whatever gata and alder are, returns success=false with no
\* persons and no vehicles, and leaves request_count, last_request_time,
\* error_count and the cache as they were: no fetch is issued.
C1_Step ==
    (pc = "idle" /\ calls' = calls + 1 /\ sp'.absent) =>
        /\ pc' = "idle"
        /\ ret'.fn = "search_person"
        /\ ret'.outcome.success = FALSE
        /\ ret'.outcome.persons = <<>>
        /\ ret'.outcome.vehicles = 0
        /\ UNCHANGED <<request_count, last_request_time, error_count, cache>>

C1_NoCriterionNoFetch == [][C1_Step]_vars

\* a search without criteria has returned on a scraper that holds a page
C1_Witness ==
    /\ sp.absent
    /\ ret.fn = "search_person"
    /\ ~ret.outcome.success
    /\ cache # <<>>

\* C6 as stated: whatever the network does, a second safe_request in a row
\* for the same URL within the ttl of the first does not increase
\* request_count.
C6_Original_Step == (pc = "attempt" /\ call.repeat) => request_count' = request_count

C6_SecondCallNeverFetches == [][C6_Original_Step]_vars

\* C6 as amended: if the first call returned a page, a second call in a row
\* for the same URL that starts less than ttl after that page's cache entry
\* was inserted is served from the cache: it returns the same page, sends no
\* request and leaves request_count as it was.
C6_Amended_Step ==
    (EnterStep /\ call'.repeat_of_page) =>
        /\ request_count' = request_count
        /\ sr'.result = sr.result
        /\ pc' = ReturnPc(sr'.caller)

C6_RepeatOfPageIsServedFromCache ==
    /\ [](call.repeat_of_page => (call.hit /\ call.result = "page" /\ call.gets = 0))
    /\ [][C6_Amended_Step]_vars

\* the second call came later than the entry it was served from
C6_Witness ==
    /\ call.repeat_of_page
    /\ call.hit
    /\ call.ended > call.entry_ts
    /\ request_count > 0

\* C7: a safe_request for a URL whose cache entry exists and has not expired
\* returns that entry's page at once, without rate_limit and without a
\* request: request_count, last_request_time, error_count and the set of
\* cached keys are unchanged.
C7_Step ==
    EnterStep =>
        \A i \in 1..Len(cache) :
            (cache[i].key = cache_key(sr'.url) /\ now - cache[i].ts < ttl) =>
                /\ pc' = ReturnPc(sr'.caller)
                /\ sr'.result = cache[i].data
                /\ UNCHANGED <<request_count, last_request_time, error_count>>
                /\ KeysOf(cache') = KeysOf(cache)

C7_CacheHitChangesNothing == [][C7_Step]_vars

\* a call was served from the cache after requests had been made
C7_Witness ==
    /\ call.hit
    /\ ret.fn = "safe_request"
    /\ ret.page \in Pages
    /\ request_count > 0

\* C8: on a cache miss safe_request(url, retries), retries >= 0, sends at most
\* retries + 1 requests, each after exactly one rate_limit acquisition; the
\* loop ends with the first request that succeeds; and when every failure is
\* a transport failure it returns None only after exactly retries + 1 failed
\* requests.
C8_State ==
    (~call.hit /\ call.result \in {"running", "page", "None"}) =>
        /\ call.gets <= sr.retries + 1
        /\ call.gets = call.oks + call.transport + call.other
        /\ call.oks <= 1
        /\ call.oks = 1 => (call.result = "page" /\ pc # "attempt")
        /\ call.result = "running" => (pc = "attempt" /\ sr.attempt = call.gets)
        /\ (call.result = "None" /\ call.other = 0) =>
               (call.transport = sr.retries + 1 /\ call.gets = sr.retries + 1)

C8_Step ==
    pc = "attempt" =>
        /\ request_count' = request_count + 1
        /\ call'.gets = call.gets + 1

C8_AtMostRetriesPlusOneAttempts == [](C8_State) /\ [][C8_Step]_vars

\* a call with a retry has failed for good
C8_Witness ==
    /\ call.result = "None"
    /\ call.other = 0
    /\ sr.retries >= 1
    /\ call.transport = sr.retries + 1

\* C9: safe_request never propagates an error to its caller.
C9_NeverRaises == call.result # "raised"

\* C10: search_person tries the candidates in descending confidence order and
\* returns at the first candidate whose results page yields exactly one
\* person, with success=true and that candidate's query as search_strategy;
\* no later candidate's results page is requested, also when an earlier
\* candidate has recorded a fallback.
C10_Order ==
    /\ \A j \in 1..(Len(sp.strategier) - 1) :
           sp.strategier[j].conf >= sp.strategier[j + 1].conf
    /\ pc \in {"loop", "results", "profile"} => sp.i \in 1..(Len(sp.strategier) + 1)

C10_Step ==
    /\ pc # "idle" => sp'.i \in {sp.i, sp.i + 1}
    /\ (pc = "loop" /\ pc' # "idle") =>
           sr'.url = search_url(sp.strategier[sp.i].query)
    /\ (pc = "results" /\ sr.result \in Pages
          /\ Len(PageContent(sr.result).persons) = 1) =>
           (sp'.i = sp.i /\ pc' \in {"idle", "profile", "attempt"})
    /\ (pc = "profile" \/ (pc = "attempt" /\ sr.caller = "profile")) =>
           (sp'.i = sp.i /\ pc' \in {"idle", "profile", "attempt"})
    /\ (pc \in {"results", "profile"} /\ pc' = "idle") =>
           /\ ret'.fn = "search_person"
           /\ ret'.outcome.success
           /\ Len(ret'.outcome.persons) = 1
           /\ ret'.outcome.search_strategy = <<sp.strategier[sp.i].query>>

C10_FirstSingleMatchWins == [](C10_Order) /\ [][C10_Step]_vars

\* a single match was returned for the second or a later candidate, after a
\* fallback had been recorded and with a candidate left untried
C10_Witness ==
    /\ pc = "idle"
    /\ ret.fn = "search_person"
    /\ ret.outcome.success
    /\ sp.basta_resultat # <<>>
    /\ sp.i >= 2
    /\ sp.i < Len(sp.strategier)

\* a results page with exactly one person has come back to search_person
SingleMatch ==
    /\ pc = "results"
    /\ sr.result \in Pages
    /\ Len(PageContent(sr.result).persons) = 1

\* C11 as stated: whenever a results page yields exactly one person, a
\* profile fetch with that person's profile reference is attempted after
\* the results fetch and before the return.
C11_Original_Step ==
    SingleMatch => (sr'.caller = "profile" /\ pc' \in {"attempt", "profile"})

C11_ProfileFetchAlwaysAttempted == [][C11_Original_Step]_vars

\* C11 as amended: whenever a results page yields exactly one person,
\* search_person returns success=true with that one person.  When the person
\* has a non-empty profile reference, safe_request is called with it after
\* the results fetch and before the return; when the reference is missing,
\* no profile fetch is made and the outcome has no vehicles.
C11_Amended_Step ==
    /\ (SingleMatch /\ PageContent(sr.result).persons[1].profil_url # Absent) =>
           /\ sr'.caller = "profile"
           /\ sr'.url = PageContent(sr.result).persons[1].profil_url[1]
           /\ pc' \in {"attempt", "profile"}
           /\ ret' = ret
    /\ (SingleMatch /\ PageContent(sr.result).persons[1].profil_url = Absent) =>
           /\ pc' = "idle"
           /\ ret'.outcome.success
           /\ ret'.outcome.persons = PageContent(sr.result).persons
           /\ ret'.outcome.vehicles = 0
           /\ UNCHANGED <<sr, request_count, cache>>
    /\ pc = "profile" =>
           /\ pc' = "idle"
           /\ ret'.fn = "search_person"
           /\ ret'.outcome.success
           /\ ret'.outcome.persons = sp.personer
           /\ Len(sp.personer) = 1
           /\ sr.url = sp.personer[1].profil_url[1]

C11_SingleMatchFetchesProfileIfAny ==
    /\ [](ret.outcome.success => Len(ret.outcome.persons) = 1)
    /\ [][C11_Amended_Step]_vars

\* a single match was returned after its profile page was requested from
\* the site
C11_Witness ==
    /\ pc = "idle"
    /\ ret.outcome.success
    /\ sr.caller = "profile"
    /\ sr.url = ret.outcome.persons[1].profil_url[1]
    /\ call.gets > 0
    /\ ret.outcome.vehicles > 0

\* an outcome without its elapsed time
untimed(outcome) == [outcome EXCEPT !.response_time = Absent]

\* the score of the page the j-th fallback candidate yielded
SeenScore(j) ==
    calculate_quality_score(PageContent(sp.seen[j].page).persons, 0)

\* the candidate search_person has to fall back on: the first of those with
\* the highest score
BestSeen ==
    CHOOSE j \in 1..Len(sp.seen) :
        /\ \A k \in 1..Len(sp.seen) : SeenScore(k) <= SeenScore(j)
        /\ \A k \in 1..(j - 1) : SeenScore(k) < SeenScore(j)

\* C12: when no candidate yields exactly one person, search_person returns
\* the outcome of the candidate with the highest quality score among those
\* that yielded 2 or 3 persons, the first tried among equal scores, exactly
\* as that candidate produced it; with no such candidate it returns the
\* "no results found" failure.
C12_BestFallbackOrNotFound ==
    (pc = "idle" /\ ret.fn = "search_person" /\ ~sp.absent
        /\ ~ret.outcome.success /\ ret.outcome # validation_failure) =>
        IF sp.seen = <<>>
        THEN untimed(ret.outcome) = not_found
        ELSE untimed(ret.outcome) =
                 fallback_outcome(PageContent(sp.seen[BestSeen].page).persons,
                                  sp.strategier[sp.seen[BestSeen].i].query)

\* three candidates gave 2 or 3 persons: the second scored higher than the
\* first, the third as high as the second, and the second was returned
C12_Witness ==
    /\ pc = "idle"
    /\ ret.fn = "search_person"
    /\ ~ret.outcome.success
    /\ Len(sp.seen) >= 3
    /\ SeenScore(1) < SeenScore(2)
    /\ SeenScore(2) = SeenScore(3)
    /\ sp.seen[2].page # sp.seen[3].page
    /\ ret.outcome.search_strategy = <<sp.strategier[sp.seen[2].i].query>>

\* C15: a failure while search_person processes candidate i never aborts the
\* call: the candidate after i is tried next, the loop is left only after
\* the last candidate or with a single match, and the call ends with an
\* outcome value, never with an error.
C15_Step ==
    /\ (pc = "results" /\ sr.result \notin Pages) =>
           /\ pc' = "loop"
           /\ sp'.i = sp.i + 1
           /\ sp'.strategier = sp.strategier
           /\ sp'.basta_resultat = sp.basta_resultat
           /\ ret' = ret
    /\ (pc = "loop" /\ sp.i <= Len(sp.strategier)) =>
           /\ pc' \in {"attempt", "results"}
           /\ sr'.url = search_url(sp.strategier[sp.i].query)
    /\ (pc = "loop" /\ pc' = "idle") => sp.i = Len(sp.strategier) + 1
    /\ (pc = "profile" /\ sr.result \notin Pages) =>
           /\ pc' = "idle"
           /\ ret'.outcome.success
           /\ ret'.outcome.vehicles = 0
    /\ (pc # "idle" /\ pc' = "idle") =>
           /\ ret'.fn = "search_person"
           /\ ret'.page = None
           /\ ret'.outcome.success \in BOOLEAN

C16_Step ==
    /\ request_count' >= request_count
    /\ last_request_time' >= last_request_time
    /\ pc = "attempt" =>
           /\ request_count' = request_count + 1
           /\ last_request_time' = now + call'.slept
           /\ last_request_time' <= now'
    /\ pc # "attempt" =>
           UNCHANGED <<request_count, last_request_time>>

C16_EveryAcquisitionCounts == [][C16_Step]_vars

\* an acquisition slept and the request after it failed
C16_Witness ==
    /\ call.slept > 0
    /\ call.result = "None"
    /\ request_count >= 2
    /\ last_request_time > StartTime

\* C17: with max_delay >= min_delay, the last_request_time an acquisition
\* records is at least min_delay later than the one recorded by the
\* acquisition before it, for every error_count.
C17_Step ==
    (request_count' = request_count + 1 /\ request_count > 0
        /\ max_delay >= min_delay) =>
        last_request_time' - last_request_time >= min_delay

C17_AcquisitionsSpacedByMinDelay == [][C17_Step]_vars

\* an acquisition had to sleep while base_delay was above max_delay
C17_Witness ==
    /\ pc = "sent"
    /\ request_count >= 2
    /\ call.slept = max_delay
    /\ base_delay(error_count) > max_delay

\* two persons with distinct, non-empty streets
TwoStreets(personer) ==
    /\ Len(personer) = 2
    /\ personer[1].gata # ""
    /\ personer[2].gata # ""
    /\ personer[1].gata # personer[2].gata

\* C18: when the results pages yield 2 persons with distinct streets,
\* search_person returns success=false with those 2 persons and suggestions
\* holding one message that names every distinct street and, when ages are
\* known, one that names every distinct known age, at most 5 values each.
C18_SuggestionsNameStreetsAndAges ==
    (/\ pc = "idle" /\ ret.fn = "search_person" /\ ~ret.outcome.success
     /\ sp.seen # <<>>
     /\ \A j \in 1..Len(sp.seen) :
            TwoStreets(PageContent(sp.seen[j].page).persons)) =>
        LET personer == ret.outcome.persons
            msgs == ret.outcome.suggestions
            streets == {personer[j].gata : j \in 1..Len(personer)} \ {""}
            ages == {personer[j].alder[1] :
                        j \in {n \in 1..Len(personer) :
                                  personer[n].alder # Absent}}
        IN  /\ TwoStreets(personer)
            /\ Cardinality({j \in 1..Len(msgs) :
                               msgs[j].kind = "gata"
                               /\ msgs[j].gator = streets}) = 1
            /\ ages # {} =>
                   Cardinality({j \in 1..Len(msgs) :
                                   msgs[j].kind = "alder"
                                   /\ msgs[j].aldrar = ages}) = 1
            /\ \A j \in 1..Len(msgs) :
                   Cardinality(msgs[j].gator) <= 5
                   /\ Cardinality(msgs[j].aldrar) <= 5

\* search_person has returned
SearchReturned == pc = "idle" /\ ret.fn = "search_person"

\* C21: every outcome search_person returns carries the time elapsed from
\* the start of the call to the moment it is returned: the success outcome,
\* the fallback returned after the remaining candidates were tried, the
\* not-found outcome and the validation failure.
C21_ElapsedTimeAtReturn ==
    SearchReturned => ret.outcome.response_time = <<now - sp.start_time>>

\* C22: whenever rate_limit sleeps, the sleep d satisfies
\* min_delay * (1 + 0.5 * error_count) <= d <= max_delay, for every
\* reachable error_count.
C22_Step ==
    (request_count' = request_count + 1 /\ call'.slept > 0) =>
        /\ base_delay(error_count) <= call'.slept
        /\ call'.slept <= max_delay

C22_SleepWithinBaseAndMax == [][C22_Step]_vars

\* the cache holds an entry for the URL of the current safe_request
HoldsUrl(c) == cache_key(sr.url) \in KeysOf(c)

\* C23: in safe_request a transport failure adds exactly 1 to error_count, a
\* success takes 1 off it, not below 0, and stores the page under the URL's
\* cache key; a failed attempt leaves the cache alone, so after a fetch that
\* returned None the cache has no entry for the URL.
C23_Step ==
    pc = "attempt" =>
        /\ call'.transport = call.transport + 1 =>
               (error_count' = error_count + 1 /\ cache' = cache)
        /\ call'.other = call.other + 1 =>
               (error_count' = error_count /\ cache' = cache)
        /\ call'.oks = call.oks + 1 =>
               /\ error_count' = (IF error_count = 0 THEN 0
                                  ELSE error_count - 1)
               /\ HoldsUrl(cache')
               /\ EntryOf(cache', cache_key(sr.url)).data = sr'.result
               /\ EntryOf(cache', cache_key(sr.url)).ts = now'

C23_ErrorsAndCacheFollowAttempts ==
    /\ [](error_count >= 0)
    /\ []((call.result = "None" /\ pc # "attempt") => ~HoldsUrl(cache))
    /\ [][C23_Step]_vars

\* a fetch ended in None after transport failures, with another URL's page
\* in the cache and errors counted
C23_Witness ==
    /\ call.result = "None"
    /\ call.transport >= 2
    /\ error_count >= 2
    /\ cache # <<>>
    /\ ~HoldsUrl(cache)

\* C24: a candidate whose results page yields more than 3 persons leaves no
\* trace: the fallback stays as it was, the next candidate is tried, and no
\* returned outcome has its persons, score or query.
C24_Step ==
    (pc = "results" /\ sr.result \in Pages
        /\ Len(PageContent(sr.result).persons) > 3) =>
        /\ pc' = "loop"
        /\ sp'.i = sp.i + 1
        /\ sp'.basta_resultat = sp.basta_resultat
        /\ sp'.basta_poang = sp.basta_poang
        /\ sp'.seen = sp.seen
        /\ ret' = ret

C24_State ==
    /\ \A j \in 1..Len(sp.seen) :
           Len(PageContent(sp.seen[j].page).persons) \in {2, 3}
    /\ sp.basta_resultat # <<>> =>
           \E j \in 1..Len(sp.seen) :
               /\ sp.basta_resultat[1].persons = PageContent(sp.seen[j].page).persons
               /\ sp.basta_resultat[1].search_strategy =
                      <<sp.strategier[sp.seen[j].i].query>>
    /\ SearchReturned =>
           /\ Len(ret.outcome.persons) <= 3
           /\ (~ret.outcome.success /\ ret.outcome.persons # <<>>) =>
                  ret.outcome = sp.basta_resultat[1]

C24_ManyPersonsLeaveNoTrace == [](C24_State) /\ [][C24_Step]_vars

\* a page of four persons has just been passed over, a fallback recorded
\* before it is still in place and a candidate is left
C24_Witness ==
    /\ pc = "loop"
    /\ sr.result = "four"
    /\ sp.basta_resultat # <<>>
    /\ sp.i <= Len(sp.strategier)

(***************************************************************************)
(* Claims about intelligent_search_builder, checked under SpecBuilder.     *)
(***************************************************************************)
\* a text field is present when it is non-empty after normalisation
Given(x) == x # None /\ normalize_svensk_namn(x) # ""

\* the confidences of the strategy table, in hundredths
Rows == {100, 95, 80, 70, 60, 50}

\* the fields a row of the strategy table composes its query from
RowNeeds(c, a) ==
    CASE c = 100 -> Given(a.fornamn) /\ Given(a.efternamn) /\ Given(a.ort)
      [] c = 95  -> Given(a.fornamn) /\ Given(a.efternamn) /\ Given(a.gata)
                    /\ Given(a.ort)
      [] c = 80  -> Given(a.fornamn) /\ Given(a.gata) /\ Given(a.ort)
      [] c = 70  -> Given(a.fornamn) /\ Given(a.ort)
      [] c = 60  -> Given(a.efternamn) /\ Given(a.ort)
      [] c = 50  -> a.alder # Absent /\ Given(a.fornamn) /\ Given(a.efternamn)

\* the condition of a row: its fields, and for the 0.80 row no last name
RowHolds(c, a) == RowNeeds(c, a) /\ (c = 80 => ~Given(a.efternamn))

RowQuery(c, a) ==
    LET f == normalize_svensk_namn(a.fornamn)
        e == normalize_svensk_namn(a.efternamn)
        o == normalize_svensk_namn(a.ort)
        g == normalize_svensk_namn(a.gata)
    IN  CASE c = 100 -> <<f, e, o>>
          [] c = 95  -> <<f, e, g, o>>
          [] c = 80  -> <<f, g, o>>
          [] c = 70  -> <<f, o>>
          [] c = 60  -> <<e, o>>
          [] c = 50  -> <<f, e, ToString(2025 - a.alder[1])>>

Built == ret.fn = "intelligent_search_builder"

\* C13: for every combination of present and absent fields the builder
\* returns at most 4 candidates, in non-increasing confidence order, each
\* with a confidence in (0, 1] and none whose required fields are absent;
\* when fornamn, efternamn and ort are all present the first candidate is
\* the first+last+city query with confidence 1.0.
C13_BuilderShape ==
    Built =>
        LET r == ret.result
            a == ret.args
        IN  /\ Len(r) <= 4
            /\ \A j \in 1..(Len(r) - 1) : r[j].conf >= r[j + 1].conf
            /\ \A j \in 1..Len(r) :
                   /\ r[j].conf \in Rows
                   /\ r[j].conf > 0 /\ r[j].conf <= 100
                   /\ RowNeeds(r[j].conf, a)
            /\ (Given(a.fornamn) /\ Given(a.efternamn) /\ Given(a.ort)) =>
                   (r # <<>> /\ r[1] = [query |-> RowQuery(100, a), conf |-> 100])

\* all five fields were given and the list was cut to four
C13_Witness ==
    /\ Built
    /\ Len(ret.result) = 4
    /\ \A c \in Rows \ {80} : RowNeeds(c, ret.args)
    /\ ret.result[1].conf = 100

\* the rows the builder has to return: those whose condition holds, but for
\* the ones with four applicable rows of higher confidence
RowsDue(a) ==
    {c \in Rows : /\ RowHolds(c, a)
                  /\ Cardinality({d \in Rows : RowHolds(d, a) /\ d > c}) < 4}

\* C20: the builder returns exactly the (up to) four highest-confidence rows
\* of the strategy table whose conditions hold for the normalised fields, an
\* age of any value being a present field.
C20_TopFourApplicableRows ==
    Built =>
        LET r == ret.result
            a == ret.args
        IN  /\ {r[j].conf : j \in 1..Len(r)} = RowsDue(a)
            /\ Len(r) = Cardinality(RowsDue(a))
            /\ \A j \in 1..Len(r) : r[j].query = RowQuery(r[j].conf, a)
            /\ \A j \in 1..(Len(r) - 1) : r[j].conf > r[j + 1].conf

(***************************************************************************)
(* Claims about calculate_quality_score, checked under SpecScore.          *)
(***************************************************************************)
\* how many persons of the list satisfy P
CountOf(personer, P(_)) ==
    Cardinality({j \in 1..Len(personer) : P(personer[j])})

HasAddress(p) == p.adress # ""
AgeKnown(p) == p.alder # Absent
GenderKnown(p) == p.kon # None

\* the score the contract prescribes, in hundredths, before the clamp
PrescribedScore(personer, fordon) ==
    IF Len(personer) = 0 THEN 0
    ELSE 50
         + (IF Len(personer) = 1 THEN 30
            ELSE IF Len(personer) \in {2, 3} THEN 10 ELSE 0)
         + (IF fordon > 0 THEN 20 ELSE 0)
         + 5 * CountOf(personer, HasAddress)
         + 5 * CountOf(personer, AgeKnown)
         + 5 * CountOf(personer, GenderKnown)

\* C14: for every list of persons and vehicles the score is min(1.0, S),
\* with 0.05 for every person of known age, an age of 0 included, and it
\* lies in [0, 1].
C14_ScoreIsPrescribed ==
    ret.fn = "calculate_quality_score" =>
        /\ ret.result \in 0..100
        /\ ret.result =
               Min(100, PrescribedScore(ret.args.personer, ret.args.fordon))

(***************************************************************************)
(* Claims about the derived birth year, checked under SpecBirthYear.       *)
(***************************************************************************)
\* C19: the birth year derived from a national ID is the year itself for a
\* 4-digit year encoding and, for a 2-digit year yy, 2000 + yy when yy <= 25
\* and 1900 + yy when yy > 25, for every 2-digit year 00..99.
C19_BirthYearByPivot ==
    ret.fn = "extract_additional_person_data" =>
        ret.result.fodelsear =
            IF ret.args.enc = "yyyy" THEN ret.args.year
            ELSE IF ret.args.year <= 25 THEN 2000 + ret.args.year
                                        ELSE 1900 + ret.args.year

(***************************************************************************)
(* Claims about extract_all_persons_robust, checked under SpecExtract.     *)
(***************************************************************************)
\* the selectors that find at least one container
Matching(markup) ==
    {k \in 1..Len(markup) : ~markup[k].raises /\ markup[k].found # <<>>}

IsPerson(container) == container.kind = "person"

\* C25: the records come from the containers of the first selector that
\* matches at least one element, never from a later one: one record, in
\* page order, for each of its containers with a name link whose processing
\* does not raise; the other containers are skipped and stop nothing.
C25_FirstMatchingSelectorOnly ==
    ret.fn = "extract_all_persons_robust" =>
        LET markup == ret.args.markup
            r == ret.result
        IN  IF Matching(markup) = {}
            THEN r = <<>>
            ELSE LET k == CHOOSE x \in Matching(markup) :
                              \A y \in Matching(markup) : x <= y
                     kept == SelectSeq(markup[k].found, IsPerson)
                 IN  /\ Len(r) = Len(kept)
                     /\ \A j \in 1..Len(r) : r[j].namn = kept[j].id

\* the first selector found a container that is skipped and then one with
\* a name link, and a later selector found containers too
C25_Witness ==
    /\ ret.fn = "extract_all_persons_robust"
    /\ Cardinality(Matching(ret.args.markup)) >= 2
    /\ Len(ret.args.markup[1].found) = 2
    /\ ret.args.markup[1].found[1].kind # "person"
    /\ ret.args.markup[1].found[2].kind = "person"
    /\ Len(ret.result) = 1

(***************************************************************************)
(* Claims about two callers of one cache, checked under SpecRace.          *)
(***************************************************************************)
Finished(t) == last_op[t].pc \in {"done", "raised"}

\* C26: the cache is not safe for unsynchronised concurrent mutation.  What
\* goes wrong when two callers run set() for distinct new keys goes wrong
\* only through their interleaving: the cache passes max_size (by one), or a
\* caller fails with KeyError on the oldest key both chose, or with
\* ValueError on a cache the other emptied, only when the two ran inside
\* set() at the same time; callers that do not interleave leave at most
\* max_size entries and raise nothing.
C26_HarmOnlyByInterleaving ==
    /\ Len(cache) <= max_size + 1
    /\ Len(cache) > max_size => \A t \in Callers : last_op[t].raced
    /\ \A t \in Callers :
           last_op[t].pc = "raised" =>
               /\ last_op[t].raced
               /\ last_op[t].error = "KeyError" =>
                      last_op[Other(t)].oldest_key = last_op[t].oldest_key
    /\ (\A t \in Callers : Finished(t) /\ ~last_op[t].raced) =>
           (Len(cache) <= max_size /\ \A t \in Callers : last_op[t].pc = "done")

\* both callers have finished set() and the cache holds more than max_size
\* entries
C26_Witness ==
    /\ \A t \in Callers : last_op[t].pc = "done"
    /\ Len(cache) > max_size
    /\ {CallerKey(1), CallerKey(2)} \subseteq KeysOf(cache)

(***************************************************************************)
(* Claims about a whole search_person call, checked under SpecSearch.      *)
(***************************************************************************)
\* C27: when ort is absent after normalisation, and alder is absent or 0 or
\* one of fornamn and efternamn is absent, the builder gives no candidate:
\* a call that passed the validation goes from the loop head straight to the
\* "no results found" outcome, with no fetch, no rate-limiter acquisition
\* and no change to the cache or the counters.
C27_State ==
    sp.sparse =>
        /\ sp.strategier = <<>>
        /\ pc \in {"idle", "loop"}
        /\ request_count = sp.acquired0
        /\ SearchReturned =>
               \/ ret.outcome = validation_failure
               \/ untimed(ret.outcome) = not_found

C27_Step ==
    (pc = "loop" /\ sp.sparse) =>
        /\ pc' = "idle"
        /\ untimed(ret'.outcome) = not_found
        /\ UNCHANGED <<cache, request_count, last_request_time, error_count>>

C27_SparseCriteriaFindNothing == [](C27_State) /\ [][C27_Step]_vars

\* a call with sparse criteria passed the validation and returned "no
\* results found" without any acquisition
C27_Witness ==
    /\ SearchReturned
    /\ sp.sparse
    /\ sp.i = 1
    /\ untimed(ret.outcome) = not_found
    /\ request_count = sp.acquired0

\* C28: every outcome search_person returns is well formed.  A success has
\* exactly one person, no error message and a score of at least 0.8; a
\* failure has no vehicles and 0, 2 or 3 persons, with a score of at least
\* 0.6 when it has persons (a fallback); the score is 0 exactly when there
\* are no persons.  Scores are in hundredths.
C28_OutcomeWellFormed ==
    SearchReturned =>
        LET o == ret.outcome
        IN  /\ o.success =>
                   /\ Len(o.persons) = 1
                   /\ o.error_message = None
                   /\ o.quality_score >= 80
            /\ ~o.success =>
                   /\ o.vehicles = 0
                   /\ Len(o.persons) \in {0, 2, 3}
                   /\ o.persons # <<>> => o.quality_score >= 60
            /\ o.quality_score = 0 <=> o.persons = <<>>
            /\ o.quality_score \in 0..100

\* a fallback of three persons has been returned after a later candidate
\* was tried
C28_Witness ==
    /\ SearchReturned
    /\ ~ret.outcome.success
    /\ Len(ret.outcome.persons) = 3
    /\ ret.outcome.quality_score >= 60
    /\ Len(sp.seen) >= 1
    /\ sp.i > sp.seen[1].i + 1

(***************************************************************************)
(* Claims about the counters, checked under Spec.                          *)
(***************************************************************************)
\* C29: with one thread, in every reachable state of a scraper
\* 0 <= error_count <= request_count, whatever fetches were made and however
\* they ended, so the success rate get_stats reports lies between 0 and 100.
C29_ErrorsWithinRequests ==
    /\ 0 <= error_count
    /\ error_count <= request_count
    /\ success_rate(request_count, error_count) \in 0..100
    /\ (request_count - error_count) <= Max(1, request_count)

\* every acquisition so far ended in a transport error: the success rate
\* is 0
C29_Witness ==
    /\ request_count >= 2
    /\ error_count = request_count
    /\ success_rate(request_count, error_count) = 0
    /\ pc = "idle"

(***************************************************************************)
(* Claims about the length of a search_person call, checked under          *)
(* SpecCall.                                                               *)
(***************************************************************************)
Acquired == request_count - sp.acquired0

PerFetch == max_retries + 1

\* the acquisitions a call may have made, by where it is
C30_Budget ==
    /\ Len(sp.strategier) <= 4
    /\ pc = "loop" =>
           /\ sp.i <= Len(sp.strategier) + 1
           /\ Acquired <= (sp.i - 1) * PerFetch
    /\ (pc = "attempt" /\ sr.caller = "results") =>
           /\ sp.i <= Len(sp.strategier)
           /\ sr.attempt <= max_retries
           /\ Acquired <= (sp.i - 1) * PerFetch + sr.attempt
    /\ pc = "results" => Acquired <= sp.i * PerFetch
    /\ (pc = "attempt" /\ sr.caller = "profile") =>
           /\ sr.attempt <= max_retries
           /\ Acquired <= sp.i * PerFetch + sr.attempt
    /\ pc = "profile" => Acquired <= (sp.i + 1) * PerFetch
    /\ pc \in {"idle", "loop", "attempt", "results", "profile"}
    /\ Acquired <= 5 * PerFetch

\* the fetches come one after another: a results fetch starts at the loop
\* head, for the next candidate; a profile fetch starts after a results page
\* and is followed by the return
C30_Step ==
    /\ (pc = "loop" /\ pc' # "idle") =>
           /\ sp.i <= 4
           /\ sp' = sp
           /\ sr'.caller = "results"
           /\ pc' \in {"attempt", "results"}
    /\ (pc = "attempt" /\ sr.caller = "results") =>
           /\ pc' \in {"attempt", "results"}
           /\ sp' = sp
           /\ Acquired' = Acquired + 1
    /\ pc = "results" =>
           \/ pc' = "loop" /\ sp'.i > sp.i
           \/ pc' = "idle"
           \/ pc' \in {"attempt", "profile"} /\ sr'.caller = "profile"
    /\ (pc = "attempt" /\ sr.caller = "profile") =>
           /\ pc' \in {"attempt", "profile"}
           /\ Acquired' = Acquired + 1
    /\ pc = "profile" => pc' = "idle"

\* C30: every search_person call returns, whatever each request gives.  Its
\* fetches come strictly one after another: at most 4 results fetches, one
\* per candidate, and at most 1 profile fetch, after which the call
\* returns; so a call makes at most 5 * (max_retries + 1) rate-limiter
\* acquisitions.
C30_CallEndsWithinBudget ==
    /\ [](C30_Budget)
    /\ [][C30_Step]_vars
    /\ (calls = 1 ~> SearchReturned)

\* a call has returned a single match after 5 * (max_retries + 1)
\* acquisitions: every attempt of three candidates failed, the fourth gave
\* its page on the last attempt and so did the profile
C30_Witness ==
    /\ SearchReturned
    /\ ret.outcome.success
    /\ sp.i = 4
    /\ Acquired = 5 * PerFetch

=============================================================================
